---- MODULE Spec2Model ----
(***************************************************************************)
(* State-machine model of the WhatsApp bridge (whatsapp-bridge/src):       *)
(*   whatsapp.ts        the process-wide socket handle, connectWhatsApp,   *)
(*                      its connection.update handler and reconnect timer  *)
(*   index.ts           main(), GET /health, POST /api/send                *)
(*   message-handler.ts registerMessageHandler / processMessage            *)
(*   audio-handler.ts   handleAudioMessage                                 *)
(*   bridge.ts          forwardToOpenClaw                                  *)
(* JavaScript strings are sequences of one-character strings; an optional  *)
(* value (null / undefined / a missing field) is <<>> and a present value  *)
(* v is <<v>>.  A connection handle is its index in conn; 0 is null.       *)
(***************************************************************************)
EXTENDS Integers, Sequences, FiniteSets, TLC

VARIABLES
  mainPc,     \* position of main(): "start", "connecting", "running", "exited"
  calls,      \* connectWhatsApp() calls in progress, by origin ("init", "timer")
  timers,     \* pending setTimeout reconnect timers
  conn,       \* every socket made by makeWASocket: [st, code]
  socket,     \* whatsapp.ts `let socket`: 0 (null) or an index of conn
  handlers,   \* sockets that have a messages.upsert listener
  listening,  \* app.listen has been called
  httpCount,  \* HTTP requests served so far
  resp,       \* the last HTTP response (connected: the /health body's field)
  batches,    \* invocations of the messages.upsert listener
  lost,       \* batches emitted by a socket that has no messages.upsert listener
  sendLog     \* every sock.sendMessage call, in the order issued

vars == <<mainPc, calls, timers, conn, socket, handlers, listening,
          httpCount, resp, batches, lost, sendLog>>

lifeVars == <<mainPc, calls, timers, conn, socket, handlers, listening>>
httpVars == <<httpCount, resp>>
msgVars  == <<batches, lost>>

----------------------------------------------------------------------------
\* Bounds of the model.
MaxConns == 3
MaxInputs == 1
RouterBatchLen == 1
MaxMsgs == 2

----------------------------------------------------------------------------
\* Optional values and strings.
None == <<>>
Some(v) == <<v>>

\* JavaScript truthiness of an optional string: present and not "".
Truthy(o) == o # None /\ o[1] # <<>>

\* a || b on optional strings.
OrElse(a, b) == IF Truthy(a) THEN a ELSE b

\* String.prototype.endsWith
EndsWith(s, suffix) ==
  /\ Len(s) >= Len(suffix)
  /\ SubSeq(s, Len(s) - Len(suffix) + 1, Len(s)) = suffix

----------------------------------------------------------------------------
\* whatsapp.ts: the connection lifecycle.

\* DisconnectReason.loggedOut
LoggedOut == 401
\* some other DisconnectReason (connectionClosed)
ConnectionClosed == 428

\* lastDisconnect?.error?.output?.statusCode: undefined, or a status code
StatusCodes == {None, Some(LoggedOut), Some(ConnectionClosed)}

Origins == {"init", "timer"}

Conns == 1..Len(conn)

\* getSocket()
getSocket == socket

\* shouldReconnect with the comparison to loggedOut lost: every close retries
shouldReconnect_always(statusCode) == TRUE

\* const shouldReconnect = statusCode !== DisconnectReason.loggedOut
shouldReconnect(statusCode) == statusCode # Some(LoggedOut)

\* The connection.update events the transport can emit on socket c: nothing
\* after its close; "open" only while connecting; a pairing code (qr, no
\* connection field) only while connecting.
Updates(c) ==
  IF conn[c].st = "close" THEN {}
  ELSE [connection : {Some("close")}, statusCode : StatusCodes, qr : {FALSE}]
       \cup (IF conn[c].st = "connecting"
             THEN [connection : {Some("open")}, statusCode : {None}, qr : {FALSE}]
                  \cup [connection : {None}, statusCode : {None}, qr : {TRUE}]
             ELSE {})

\* the timer scheduled on every close, whatever the reason
timersAfter_anyClose(update) ==
  IF update.connection = Some("close") THEN timers + 1 ELSE timers

\* the retry scheduled twice on a transient close
timersAfter_twice(update) ==
  IF update.connection = Some("close") /\ update.statusCode # Some(LoggedOut)
  THEN timers + 2
  ELSE timers

\* the retry scheduled on every update that is not a logout close, the
\* `connection === "close"` test lost
timersAfter_anyUpdate(update) ==
  IF shouldReconnect(update.statusCode) THEN timers + 1 ELSE timers

\* setTimeout(() => connectWhatsApp().catch(...), 3000), when the handler
\* reaches it
timersAfter(update) ==
  IF update.connection = Some("close") /\ shouldReconnect(update.statusCode)
  THEN timers + 1
  ELSE timers

\* `socket = null` on every close, not only on a logout
socketAfter_nullOnClose(c, update) ==
  IF update.connection = Some("open") THEN c
  ELSE IF update.connection = Some("close") THEN 0
  ELSE socket

\* the assignments to `socket` in the connection.update handler of sock c
socketAfter(c, update) ==
  LET afterClose ==
        IF update.connection = Some("close") /\ ~shouldReconnect(update.statusCode)
        THEN 0
        ELSE socket
  IN IF update.connection = Some("open") THEN c ELSE afterClose

\* sock.ev.on("connection.update", ...) of socket c, run on an update the
\* transport emits
ConnectionUpdate(c, update) ==
  /\ update \in Updates(c)
  /\ conn' = [conn EXCEPT ![c] =
                [st   |-> IF update.connection = None THEN @.st
                          ELSE update.connection[1],
                 code |-> update.statusCode]]
  /\ timers' = timersAfter(update)
  /\ socket' = socketAfter(c, update)
  /\ UNCHANGED <<mainPc, calls, handlers, listening, httpVars, msgVars, sendLog>>

\* the timer as an interval: it stays pending after it has fired
TimerFires_interval ==
  /\ timers > 0
  /\ Len(conn) + calls["init"] + calls["timer"] < MaxConns
  /\ timers' = timers
  /\ calls' = [calls EXCEPT !["timer"] = @ + 1]
  /\ UNCHANGED <<mainPc, conn, socket, handlers, listening, httpVars, msgVars, sendLog>>

\* The reconnect timer fires: connectWhatsApp() is called.
TimerFires ==
  /\ timers > 0
  /\ Len(conn) + calls["init"] + calls["timer"] < MaxConns
  /\ timers' = timers - 1
  /\ calls' = [calls EXCEPT !["timer"] = @ + 1]
  /\ UNCHANGED <<mainPc, conn, socket, handlers, listening, httpVars, msgVars, sendLog>>

\* main() with app.listen called before initWhatsApp()
MainStart_listenFirst(dirOk) ==
  /\ mainPc = "start"
  /\ listening' = TRUE
  /\ IF dirOk
     THEN /\ mainPc' = "connecting"
          /\ calls' = [calls EXCEPT !["init"] = @ + 1]
     ELSE /\ mainPc' = "exited"
          /\ UNCHANGED calls
  /\ UNCHANGED <<timers, conn, socket, handlers, httpVars, msgVars, sendLog>>

\* initWhatsApp() up to its await: the session directory is made when it is
\* missing (mkdirSync may throw: main().catch exits the process), then
\* connectWhatsApp() is called.
MainStart(dirOk) ==
  /\ mainPc = "start"
  /\ IF dirOk
     THEN /\ mainPc' = "connecting"
          /\ calls' = [calls EXCEPT !["init"] = @ + 1]
     ELSE /\ mainPc' = "exited"
          /\ UNCHANGED calls
  /\ UNCHANGED <<timers, conn, socket, handlers, listening, httpVars, msgVars, sendLog>>

\* connectWhatsApp() returning without its `socket = sock`
ConnectResolves_noAssign(origin) ==
  /\ calls[origin] > 0
  /\ Len(conn) < MaxConns
  /\ calls' = [calls EXCEPT ![origin] = @ - 1]
  /\ conn' = Append(conn, [st |-> "connecting", code |-> None])
  /\ socket' = socket
  /\ IF origin = "init"
     THEN /\ handlers' = handlers \cup {Len(conn) + 1}
          /\ listening' = TRUE
          /\ mainPc' = "running"
     ELSE UNCHANGED <<handlers, listening, mainPc>>
  /\ UNCHANGED <<timers, httpVars, msgVars, sendLog>>

\* connectWhatsApp() returns: the socket is made, its observers are
\* registered, `socket = sock`. The call made by main() continues in main:
\* registerMessageHandler(sock), app.listen.
ConnectResolves(origin) ==
  /\ calls[origin] > 0
  /\ Len(conn) < MaxConns
  /\ calls' = [calls EXCEPT ![origin] = @ - 1]
  /\ conn' = Append(conn, [st |-> "connecting", code |-> None])
  /\ socket' = Len(conn) + 1
  /\ IF origin = "init"
     THEN /\ handlers' = handlers \cup {Len(conn) + 1}
          /\ listening' = TRUE
          /\ mainPc' = "running"
     ELSE UNCHANGED <<handlers, listening, mainPc>>
  /\ UNCHANGED <<timers, httpVars, msgVars, sendLog>>

\* every rejected connectWhatsApp() call ends the process
ConnectRejects_alwaysExit(origin) ==
  /\ calls[origin] > 0
  /\ calls' = [calls EXCEPT ![origin] = @ - 1]
  /\ mainPc' = "exited"
  /\ UNCHANGED <<timers, conn, socket, handlers, listening, httpVars, msgVars, sendLog>>

\* connectWhatsApp() rejects before a socket exists (useMultiFileAuthState,
\* fetchLatestBaileysVersion or makeWASocket throws). The timer's call only
\* logs "Reconnection failed"; main's call reaches main().catch: exit(1).
ConnectRejects(origin) ==
  /\ calls[origin] > 0
  /\ calls' = [calls EXCEPT ![origin] = @ - 1]
  /\ mainPc' = IF origin = "init" THEN "exited" ELSE mainPc
  /\ UNCHANGED <<timers, conn, socket, handlers, listening, httpVars, msgVars, sendLog>>

----------------------------------------------------------------------------
\* index.ts: the HTTP front door.

\* the HTTP requests and messages.upsert events the process has received
InputsSoFar == httpCount + Len(batches) + Cardinality(lost)

NoResp == [ep |-> "none", code |-> 0, connected |-> FALSE]

\* /health clearing the handle it reports as missing or closed
Health_resetsHandle ==
  /\ listening
  /\ InputsSoFar < MaxInputs
  /\ httpCount' = httpCount + 1
  /\ resp' = [ep |-> "health", code |-> 200, connected |-> (getSocket # 0)]
  /\ socket' = IF getSocket # 0 /\ conn[getSocket].st = "open" THEN socket ELSE 0
  /\ UNCHANGED <<mainPc, calls, timers, conn, handlers, listening, msgVars, sendLog>>

\* app.get("/health")
Health ==
  /\ listening
  /\ InputsSoFar < MaxInputs
  /\ httpCount' = httpCount + 1
  /\ resp' = [ep |-> "health", code |-> 200, connected |-> (getSocket # 0)]
  /\ UNCHANGED <<lifeVars, msgVars, sendLog>>

\* a sock.sendMessage(to, {text}) call on socket s: st is the state of s and
\* cur the process-wide handle when the call is made
SendEntry(via, b, i, s, to, text) ==
  [via |-> via, b |-> b, i |-> i, sock |-> s, to |-> to, text |-> text,
   st |-> IF s = 0 THEN "null" ELSE conn[s].st, cur |-> getSocket]

\* the status app.post("/api/send") answers with, before the send's outcome
\* is known: 400, 503 or 0 (the send is attempted)
sendGate(recipient, message, sock) ==
  IF ~Truthy(recipient) \/ ~Truthy(message) THEN 400
  ELSE IF sock = 0 THEN 503
  ELSE 0

\* app.post("/api/send") with body {recipient, message}; sendOk is whether
\* the awaited sock.sendMessage resolves
ApiSend(recipient, message, sendOk) ==
  /\ listening
  /\ InputsSoFar < MaxInputs
  /\ httpCount' = httpCount + 1
  /\ LET sock == getSocket
         gate == sendGate(recipient, message, sock)
     IN IF gate # 0
        THEN /\ resp' = [ep |-> "send", code |-> gate, connected |-> FALSE]
             /\ UNCHANGED sendLog
        ELSE /\ sendLog' = Append(sendLog,
                             SendEntry("push", 0, 0, sock, recipient[1], message[1]))
             /\ resp' = [ep |-> "send", code |-> IF sendOk THEN 200 ELSE 500,
                         connected |-> FALSE]
  /\ UNCHANGED <<lifeVars, msgVars>>

----------------------------------------------------------------------------
\* message-handler.ts, audio-handler.ts, bridge.ts: inbound messages.

\* const STATUS_BROADCAST = "status@broadcast"
STATUS_BROADCAST ==
  <<"s","t","a","t","u","s","@","b","r","o","a","d","c","a","s","t">>
GroupSuffix == <<"@","g",".","u","s">>
GroupTagOpen == <<"[","g","r","o","u","p",":">>
GroupTagClose == <<"]"," ">>
VoiceTag == <<"[","v","o","i","c","e","]"," ">>

\* Conversation and participant ids, and texts, of the inputs.
DirectJid == <<"7","@","c",".","u","s">>
GroupJid == <<"9","@","g",".","u","s">>
ShortJid == <<"g",".","u","s">>
ParticipantJid == <<"5","@","c",".","u","s">>
TextHi == <<"h","i">>
TextYo == <<"y","o">>
ReplyText == <<"o","k">>

\* jid.endsWith("@g.us")
isGroup(jid) == EndsWith(jid, GroupSuffix)

\* the participant preferred for every conversation, group or not
senderId_participantFirst(msg) ==
  IF Truthy(msg.participant) THEN msg.participant[1] ELSE msg.jid[1]

\* const senderId = isGroup ? msg.key.participant || jid : jid
senderId(msg) ==
  LET jid == msg.jid[1]
  IN IF isGroup(jid)
     THEN (IF Truthy(msg.participant) THEN msg.participant[1] ELSE jid)
     ELSE jid

\* the extended text preferred to the plain text
textContent_extFirst(msg) == OrElse(msg.extText, msg.conversation)

\* msg.message?.conversation || msg.message?.extendedTextMessage?.text
textContent(msg) == OrElse(msg.conversation, msg.extText)

\* const prefix = isGroup ? `[group:${jid}] ` : ""
prefix(msg) ==
  IF isGroup(msg.jid[1]) THEN GroupTagOpen \o msg.jid[1] \o GroupTagClose
  ELSE <<>>

\* `${prefix}${textContent}`
textFullContent(msg) == prefix(msg) \o textContent(msg)[1]

\* the voice tag put before the group tag
voiceFullContent_tagFirst(msg, transcribedText) ==
  VoiceTag \o prefix(msg) \o transcribedText

\* `${prefix}[voice] ${transcribedText}`
voiceFullContent(msg, transcribedText) ==
  prefix(msg) \o VoiceTag \o transcribedText

\* the early returns without the fromMe check
dropped_noFromMe(msg) ==
  \/ ~Truthy(msg.jid)
  \/ msg.jid[1] = STATUS_BROADCAST

\* the three early returns of processMessage
dropped(msg) ==
  \/ ~Truthy(msg.jid)
  \/ msg.jid[1] = STATUS_BROADCAST
  \/ msg.fromMe

\* String.prototype.trim, on the space character
RECURSIVE TrimLeft(_)
TrimLeft(s) == IF s # <<>> /\ Head(s) = " " THEN TrimLeft(Tail(s)) ELSE s
RECURSIVE TrimRight(_)
TrimRight(s) ==
  IF s # <<>> /\ s[Len(s)] = " " THEN TrimRight(SubSeq(s, 1, Len(s) - 1)) ELSE s
Trim(s) == TrimRight(TrimLeft(s))

\* What processing one message has done so far: dl and trans count the calls
\* of downloadMediaMessage and of the Voice Gateway, got and answer are what
\* they returned, heard is what handleAudioMessage returned, fwd the calls of
\* forwardToOpenClaw, reply what OpenClaw answered, response what
\* forwardToOpenClaw returned, err whether the loop's catch ran.
NoFx ==
  [dl |-> 0, trans |-> 0, fwd |-> <<>>, err |-> FALSE,
   got |-> <<>>, answer |-> <<>>, heard |-> <<>>, reply |-> <<>>, response |-> <<>>]

\* The messages.upsert event {messages, type} as it reaches the listener
\* registered on socket s.
Arrived(s, type, messages) ==
  [sock |-> s, type |-> type, msgs |-> messages, idx |-> 1, pc |-> "arrived",
   fx |-> [i \in DOMAIN messages |-> NoFx]]

\* forwardToOpenClaw(senderId, content) is called for message t.idx
CallForward(t, sender, content) ==
  [t EXCEPT !.pc = "forward",
            !.fx[t.idx].fwd = Append(@, [senderId |-> sender, content |-> content])]

\* processMessage with the audio branch tested before the text branch
processMessage_voiceFirst(t) ==
  LET msg == t.msgs[t.idx]
  IN IF dropped(msg) THEN [t EXCEPT !.pc = "next"]
     ELSE IF msg.audio
       THEN [t EXCEPT !.pc = "download", !.fx[t.idx].dl = @ + 1]
     ELSE IF Truthy(textContent(msg))
       THEN CallForward(t, senderId(msg), textFullContent(msg))
     ELSE [t EXCEPT !.pc = "next"]

\* processMessage(sock, msg) for message t.idx, up to its first await or its
\* return (pc "next")
processMessage(t) ==
  LET msg == t.msgs[t.idx]
  IN IF dropped(msg) THEN [t EXCEPT !.pc = "next"]
     ELSE IF Truthy(textContent(msg))
       THEN CallForward(t, senderId(msg), textFullContent(msg))
     ELSE IF msg.audio
       THEN [t EXCEPT !.pc = "download", !.fx[t.idx].dl = @ + 1]
     ELSE [t EXCEPT !.pc = "next"]

\* for (const msg of messages) { try { await processMessage(sock, msg) } ... }
\* from message t.idx on, up to the next await on a backend or the end
RECURSIVE loop(_)
loop(t) ==
  IF t.idx > Len(t.msgs) THEN [t EXCEPT !.pc = "done"]
  ELSE LET u == processMessage(t)
       IN IF u.pc = "next" THEN loop([u EXCEPT !.idx = @ + 1]) ELSE u

\* processMessage for message t.idx has returned or thrown into the catch
nextMessage(t) == loop([t EXCEPT !.idx = @ + 1])

\* the listener without its type check
onUpsert_anyType(t) == loop(t)

\* the messages.upsert listener: if (type !== "notify") return; then the loop
onUpsert(t) ==
  IF t.type # "notify" THEN [t EXCEPT !.pc = "done"] ELSE loop(t)

\* Inbound events: [jid, fromMe, participant, conversation, extText, audio].
Payloads ==
  [conversation : {None, Some(<<>>), Some(TextHi)},
   extText : {None, Some(TextYo)},
   audio : BOOLEAN]

Event(jid, fromMe, participant, payload) ==
  [jid |-> jid, fromMe |-> fromMe, participant |-> participant,
   conversation |-> payload.conversation, extText |-> payload.extText,
   audio |-> payload.audio]

\* the events of the router specification
RouterEvents ==
  {Event(j, f, None, p) :
     j \in {None, Some(<<>>), Some(STATUS_BROADCAST)}, f \in BOOLEAN, p \in Payloads}
  \cup {Event(j, TRUE, q, p) :
     j \in {Some(DirectJid), Some(GroupJid)}, q \in {None, Some(ParticipantJid)},
     p \in Payloads}
  \cup {Event(j, FALSE, q, p) :
     j \in {Some(DirectJid), Some(GroupJid), Some(ShortJid)},
     q \in {None, Some(ParticipantJid)}, p \in Payloads}

TextOnly == [conversation |-> Some(TextHi), extText |-> None, audio |-> FALSE]
AudioOnly == [conversation |-> None, extText |-> None, audio |-> TRUE]

BatchTypes == {"notify", "append"}

\* the batches of the full specification
LiveBatches ==
  {[type |-> "notify", msgs |-> <<Event(Some(DirectJid), FALSE, None, TextOnly)>>],
   [type |-> "notify",
    msgs |-> <<Event(Some(DirectJid), TRUE, None, TextOnly),
               Event(Some(GroupJid), FALSE, Some(ParticipantJid), AudioOnly)>>],
   [type |-> "append", msgs |-> <<Event(Some(DirectJid), FALSE, None, TextOnly)>>]}

SeqsUpTo(S, n) == UNION {[1..k -> S] : k \in 1..n}

\* downloadMediaMessage: throws, or returns nothing, an empty buffer, bytes
DownloadOutcomes == {"throw", "none", "empty", "bytes"}

\* axios.post to the Voice Gateway: fails, or answers {text?}
TranscribeOutcomes ==
  [ok : {FALSE}, text : {None}]
  \cup [ok : {TRUE},
        text : {None, Some(<<>>), Some(<<" ">>), Some(<<" ","o","k"," ">>)}]

\* axios.post to OpenClaw: fails, or answers {text?}
ForwardOutcomes ==
  [ok : {FALSE}, text : {None}]
  \cup [ok : {TRUE}, text : {None, Some(<<>>), Some(ReplyText)}]

Tasks == 1..Len(batches)

\* The transport emits messages.upsert on open socket c. The listener, if
\* any, runs up to its first await.
EmitBatch(c, type, messages) ==
  /\ c \in Conns
  /\ conn[c].st = "open"
  /\ InputsSoFar < MaxInputs
  /\ IF c \in handlers
     THEN /\ batches' = Append(batches, onUpsert(Arrived(c, type, messages)))
          /\ UNCHANGED lost
     ELSE /\ lost' = lost \cup {[sock |-> c, type |-> type, msgs |-> messages]}
          /\ UNCHANGED batches
  /\ UNCHANGED <<lifeVars, httpVars, sendLog>>

\* The listener runs on a batch that has arrived.
Upsert(b) ==
  /\ batches[b].pc = "arrived"
  /\ batches' = [batches EXCEPT ![b] = onUpsert(@)]
  /\ UNCHANGED <<lifeVars, httpVars, lost, sendLog>>

\* the answer's text returned untrimmed
transcript_noTrim(outcome) ==
  IF outcome.ok /\ outcome.text # None /\ outcome.text[1] # <<>>
  THEN Some(outcome.text[1])
  ELSE None

\* the transcript handleAudioMessage returns for a Voice Gateway answer:
\* response.data?.text?.trim(), null when empty or on an error
transcript(outcome) ==
  IF outcome.ok /\ outcome.text # None /\ Trim(outcome.text[1]) # <<>>
  THEN Some(Trim(outcome.text[1]))
  ELSE None

\* only a missing buffer taken as empty
bufferEmpty_missingOnly(outcome) == outcome = "none"

\* if (!buffer || buffer.length === 0)
bufferEmpty(outcome) == outcome \in {"none", "empty"}

\* handleAudioMessage after downloadMediaMessage: an empty or failed download
\* returns null (processMessage returns); else the transcription is posted.
DownloadReturns(b, outcome) ==
  /\ batches[b].pc = "download"
  /\ LET t == [batches[b] EXCEPT !.fx[batches[b].idx].got = Append(@, outcome)]
     IN batches' = [batches EXCEPT ![b] =
          IF outcome = "throw" \/ bufferEmpty(outcome)
          THEN nextMessage([t EXCEPT !.fx[t.idx].heard = Append(@, None)])
          ELSE [t EXCEPT !.pc = "transcribe", !.fx[t.idx].trans = @ + 1]]
  /\ UNCHANGED <<lifeVars, httpVars, lost, sendLog>>

\* handleAudioMessage after the Voice Gateway's answer, and processMessage
\* after it: a transcript is forwarded, anything else is dropped.
TranscribeReturns(b, outcome) ==
  /\ batches[b].pc = "transcribe"
  /\ LET transcribedText == transcript(outcome)
         t == [batches[b] EXCEPT !.fx[batches[b].idx].answer = Append(@, outcome),
                                 !.fx[batches[b].idx].heard = Append(@, transcribedText)]
         msg == t.msgs[t.idx]
     IN batches' = [batches EXCEPT ![b] =
          IF Truthy(transcribedText)
          THEN CallForward(t, senderId(msg), voiceFullContent(msg, transcribedText[1]))
          ELSE nextMessage(t)]
  /\ UNCHANGED <<lifeVars, httpVars, lost, sendLog>>

\* the error's body returned in place of null
forwardResult_errorBody(outcome) ==
  IF outcome.ok THEN Some([text |-> outcome.text])
  ELSE Some([text |-> Some(ReplyText)])

\* what forwardToOpenClaw returns: response.data, or null on any error
forwardResult(outcome) == IF outcome.ok THEN Some([text |-> outcome.text]) ELSE None

\* the reply addressed to the resolved sender
replyTo_sender(msg) == senderId(msg)

\* the conversation a reply is sent to: sock.sendMessage(jid, ...)
replyTo(msg) == msg.jid[1]

\* if (response?.text)
hasReplyText(response) == response # None /\ Truthy(response[1].text)

\* the reply sent on the handle getSocket() returns at that moment
replySock_current(t) == getSocket

\* the `sock` of processMessage(sock, msg): the socket the listener was
\* registered on
replySock(t) == t.sock

\* processMessage after forwardToOpenClaw: a reply text is sent to jid on the
\* socket the listener was registered on.
ForwardReturns(b, outcome) ==
  /\ batches[b].pc = "forward"
  /\ LET response == forwardResult(outcome)
         t == [batches[b] EXCEPT !.fx[batches[b].idx].reply = Append(@, outcome),
                                 !.fx[batches[b].idx].response = Append(@, response)]
         msg == t.msgs[t.idx]
     IN IF hasReplyText(response)
        THEN /\ sendLog' = Append(sendLog,
                  SendEntry("reply", b, t.idx, replySock(t), replyTo(msg), response[1].text[1]))
             /\ batches' = [batches EXCEPT ![b] = [t EXCEPT !.pc = "send"]]
        ELSE /\ batches' = [batches EXCEPT ![b] = nextMessage(t)]
             /\ UNCHANGED sendLog
  /\ UNCHANGED <<lifeVars, httpVars, lost>>

\* a rejected send thrown out of the loop: the listener ends
afterSend_noCatch(t, sendOk) ==
  IF sendOk THEN nextMessage(t)
  ELSE [t EXCEPT !.pc = "done", !.fx[t.idx].err = TRUE]

\* try { await processMessage(sock, msg) } catch (err) { logger.error(...) }
\* once the awaited sock.sendMessage has settled: the loop goes on either way
afterSend(t, sendOk) == nextMessage([t EXCEPT !.fx[t.idx].err = ~sendOk])

\* the awaited sock.sendMessage settles; a rejection is caught by the loop's
\* try/catch and logged
SendReturns(b, sendOk) ==
  /\ batches[b].pc = "send"
  /\ batches' = [batches EXCEPT ![b] = afterSend(@, sendOk)]
  /\ UNCHANGED <<lifeVars, httpVars, lost, sendLog>>

----------------------------------------------------------------------------
\* The full specification: the process from its start.

Init ==
  /\ mainPc = "start"
  /\ calls = [o \in Origins |-> 0]
  /\ timers = 0
  /\ conn = <<>>
  /\ socket = 0
  /\ handlers = {}
  /\ listening = FALSE
  /\ httpCount = 0
  /\ resp = NoResp
  /\ batches = <<>>
  /\ lost = {}
  /\ sendLog = <<>>

Lifecycle ==
  \/ \E dirOk \in BOOLEAN : MainStart(dirOk)
  \/ \E o \in Origins : ConnectResolves(o)
  \/ \E o \in Origins : ConnectRejects(o)
  \/ \E c \in Conns : \E u \in Updates(c) : ConnectionUpdate(c, u)
  \/ TimerFires

Http ==
  \/ Health
  \/ \E r \in {None, Some(DirectJid)}, m \in {None, Some(TextHi)}, ok \in BOOLEAN :
       ApiSend(r, m, ok)

Backends ==
  \/ \E b \in Tasks : \E o \in DownloadOutcomes : DownloadReturns(b, o)
  \/ \E b \in Tasks : \E o \in TranscribeOutcomes : TranscribeReturns(b, o)
  \/ \E b \in Tasks : \E o \in ForwardOutcomes : ForwardReturns(b, o)
  \/ \E b \in Tasks : \E ok \in BOOLEAN : SendReturns(b, ok)

Next ==
  \/ Lifecycle
  \/ Http
  \/ \E c \in Conns, e \in LiveBatches : EmitBatch(c, e.type, e.msgs)
  \/ Backends

Spec == Init /\ [][Next]_vars

----------------------------------------------------------------------------
\* The router specification: one batch, drawn from RouterEvents, arrives at
\* the listener of an open socket.

InitRouter ==
  /\ mainPc = "running"
  /\ calls = [o \in Origins |-> 0]
  /\ timers = 0
  /\ conn = <<[st |-> "open", code |-> None]>>
  /\ socket = 1
  /\ handlers = {1}
  /\ listening = TRUE
  /\ httpCount = 0
  /\ resp = NoResp
  /\ \E ty \in BatchTypes, ms \in SeqsUpTo(RouterEvents, RouterBatchLen) :
       batches = <<Arrived(1, ty, ms)>>
  /\ lost = {}
  /\ sendLog = <<>>

NextRouter ==
  \/ \E b \in Tasks : Upsert(b)
  \/ Backends

SpecRouter == InitRouter /\ [][NextRouter]_vars

----------------------------------------------------------------------------
\* The batches specification: notify batches of MaxMsgs events in all, drawn
\* from BatchEvents, reach the listener of an open socket in the order of
\* their indices; their backend calls settle in any order.

BatchEvents ==
  {Event(Some(DirectJid), FALSE, None, TextOnly),
   Event(Some(DirectJid), TRUE, None, TextOnly),
   Event(Some(GroupJid), FALSE, Some(ParticipantJid), AudioOnly)}

RECURSIVE SumLen(_)
SumLen(q) == IF q = <<>> THEN 0 ELSE Len(Head(q)) + SumLen(Tail(q))

\* the sequences of non-empty batches that hold n events at most
BatchSeqs(n) ==
  {q \in SeqsUpTo(SeqsUpTo(BatchEvents, n), n) : SumLen(q) <= n}

InitBatches ==
  /\ mainPc = "running"
  /\ calls = [o \in Origins |-> 0]
  /\ timers = 0
  /\ conn = <<[st |-> "open", code |-> None]>>
  /\ socket = 1
  /\ handlers = {1}
  /\ listening = TRUE
  /\ httpCount = 0
  /\ resp = NoResp
  /\ \E q \in BatchSeqs(MaxMsgs) :
       batches = [b \in DOMAIN q |-> Arrived(1, "notify", q[b])]
  /\ lost = {}
  /\ sendLog = <<>>

NextBatches ==
  \/ \E b \in Tasks :
       /\ \A a \in 1..(b - 1) : batches[a].pc # "arrived"
       /\ Upsert(b)
  \/ Backends

SpecBatches == InitBatches /\ [][NextBatches]_vars

----------------------------------------------------------------------------
\* Properties of the connection lifecycle.

\* socket c goes from not closed to closed in this step
Closes(c) == conn[c].st # "close" /\ conn'[c].st = "close"

LoggedOutHandled ==
  \E c \in Conns : conn[c].st = "close" /\ conn[c].code = Some(LoggedOut)

TransientCloseHandled ==
  \E c \in Conns : conn[c].st = "close" /\ conn[c].code # Some(LoggedOut)

LiveConns == {c \in Conns : conn[c].st \in {"connecting", "open"}}

\* C1: a step in which a socket closes with a reason other than loggedOut
\* schedules exactly one reconnect timer, starts no connect() itself and
\* leaves the process-wide handle as it was (in particular, not null).
C1_TransientCloseSchedulesOneRetry ==
  [][\A c \in Conns :
       (Closes(c) /\ conn'[c].code # Some(LoggedOut))
         => /\ timers' = timers + 1
            /\ calls' = calls
            /\ socket' = socket
            /\ socket' # 0]_vars

\* a transient close has just been handled: one timer, the handle kept
C1_Witness ==
  \E c \in Conns :
    /\ conn[c].st = "close"
    /\ conn[c].code = Some(ConnectionClosed)
    /\ timers = 1
    /\ socket = c

\* C2: a step in which a socket closes with the loggedOut reason sets the
\* process-wide handle to null and schedules no timer and no connect().
C2_LogoutNullsHandleNoRetry ==
  [][\A c \in Conns :
       (Closes(c) /\ conn'[c].code = Some(LoggedOut))
         => /\ socket' = 0
            /\ timers' = timers
            /\ calls' = calls]_vars

\* a logout close has been handled on the first socket
C2_Witness ==
  /\ Len(conn) = 1
  /\ conn[1].st = "close"
  /\ conn[1].code = Some(LoggedOut)
  /\ socket = 0
  /\ timers = 0

\* C3: once a logout close has been handled, getSocket() is null, no timer
\* is pending, no connect() is in progress and no socket is connecting or
\* open, in every later state.
C3_LogoutIsPermanent ==
  LoggedOutHandled =>
    /\ getSocket = 0
    /\ timers = 0
    /\ \A o \in Origins : calls[o] = 0
    /\ LiveConns = {}

\* the logout was handled on a socket made by a reconnect
C3_Witness ==
  /\ Len(conn) >= 2
  /\ conn[Len(conn)].st = "close"
  /\ conn[Len(conn)].code = Some(LoggedOut)
  /\ TransientCloseHandled

\* C4: pending reconnect timers plus connect() calls started by a timer are
\* never more than one.
C4_AtMostOneReconnectOutstanding == timers + calls["timer"] <= 1

\* a second-generation retry is outstanding
C4_Witness ==
  /\ timers + calls["timer"] = 1
  /\ Len(conn) >= 2
  /\ \A c \in Conns : conn[c].st = "close"

\* C5: every live-notify batch emitted by an open socket reaches a listener
\* when one of its events has a conversation id other than the status
\* broadcast, is not self-originated and carries text; so no such batch is
\* lost on the socket of a reconnect.
Routable(m) ==
  /\ Truthy(m.jid)
  /\ m.jid # Some(STATUS_BROADCAST)
  /\ ~m.fromMe
  /\ (Truthy(m.conversation) \/ Truthy(m.extText))

C5_RoutingSurvivesReconnect ==
  \A e \in lost :
    e.type = "notify" => \A i \in DOMAIN e.msgs : ~Routable(e.msgs[i])

\* C6: after a transient close, as long as no socket is connecting or open
\* and no logout was handled, a retry is pending (a timer) or in progress
\* (a connect() call started by a timer).
C6_RetryChainNeverStops ==
  (TransientCloseHandled /\ ~LoggedOutHandled /\ LiveConns = {} /\ mainPc # "exited")
    => timers + calls["timer"] >= 1

\* C7: every sock.sendMessage call, by POST /api/send or by the reply relay,
\* is made on a socket that is open at that moment.
C7_SendOnlyWhileOpen ==
  \A k \in DOMAIN sendLog : sendLog[k].st = "open"

----------------------------------------------------------------------------
\* Properties of the router.

SendsOf(b, i) == {k \in DOMAIN sendLog : sendLog[k].b = b /\ sendLog[k].i = i}

\* message i of batch b has caused no download, no transcription call, no
\* forward call and no send
NoEffects(b, i) == batches[b].fx[i] = NoFx /\ SendsOf(b, i) = {}

\* C8: a batch whose type is not "notify" causes no transcription call, no
\* forward call and no send, whatever its events.
C8_OnlyNotifyBatchesProcessed ==
  \A b \in Tasks :
    batches[b].type # "notify"
      => /\ batches[b].pc \in {"arrived", "done"}
         /\ \A i \in DOMAIN batches[b].msgs : NoEffects(b, i)

\* the listener has returned on an "append" batch that holds a routable event
C8_Witness ==
  \E b \in Tasks :
    /\ batches[b].type = "append"
    /\ batches[b].pc = "done"
    /\ Routable(batches[b].msgs[1])

\* C9: an event with no conversation id, with the status broadcast id, or
\* self-originated, causes no transcription call, no forward call and no
\* send, whatever its payload.
C9_FilteredEventsHaveNoEffects ==
  \A b \in Tasks : \A i \in DOMAIN batches[b].msgs :
    LET m == batches[b].msgs[i]
    IN (m.jid = None \/ m.jid = Some(STATUS_BROADCAST) \/ m.fromMe)
         => NoEffects(b, i)

\* the loop is past a self-originated direct text event of a notify batch
C9_Witness ==
  \E b \in Tasks :
    /\ batches[b].type = "notify"
    /\ batches[b].pc = "done"
    /\ batches[b].msgs[1].jid = Some(DirectJid)
    /\ batches[b].msgs[1].fromMe
    /\ batches[b].msgs[1].conversation = Some(TextHi)

\* C10: the sender id of every forward call is the participant id for a
\* group conversation ("@g.us") with a participant id, the conversation id
\* for a group without one, and the conversation id for a direct one.
C10_ResolvedSender ==
  \A b \in Tasks : \A i \in DOMAIN batches[b].msgs :
    \A k \in DOMAIN batches[b].fx[i].fwd :
      LET m == batches[b].msgs[i]
          jid == m.jid[1]
          group == Len(jid) >= 5 /\ SubSeq(jid, Len(jid) - 4, Len(jid)) = <<"@","g",".","u","s">>
          sender == batches[b].fx[i].fwd[k].senderId
      IN /\ (group /\ m.participant # None) => sender = m.participant[1]
         /\ (group /\ m.participant = None) => sender = jid
         /\ ~group => sender = jid

\* a group event with a participant id has been forwarded
C10_Witness ==
  \E b \in Tasks :
    /\ batches[b].msgs[1].jid = Some(GroupJid)
    /\ batches[b].msgs[1].participant = Some(ParticipantJid)
    /\ Len(batches[b].fx[1].fwd) = 1
    /\ batches[b].fx[1].fwd[1].senderId = ParticipantJid

\* the loop of batch b has reached message i
Reached(b, i) ==
  /\ batches[b].type = "notify"
  /\ batches[b].pc # "arrived"
  /\ batches[b].idx >= i

\* message i of batch b is past the three filters
PassesFilters(m) ==
  /\ Truthy(m.jid)
  /\ m.jid # Some(STATUS_BROADCAST)
  /\ ~m.fromMe

\* the text body: the plain text field if non-empty, else the extended one
ClaimTextBody(m) ==
  IF m.conversation # None /\ m.conversation[1] # <<>> THEN m.conversation
  ELSE m.extText

ClaimIsGroup(jid) ==
  Len(jid) >= 5 /\ SubSeq(jid, Len(jid) - 4, Len(jid)) = <<"@","g",".","u","s">>

\* "[group:<conversationId>] " for a group, nothing for a direct conversation
ClaimGroupTag(jid) ==
  IF ClaimIsGroup(jid)
  THEN <<"[","g","r","o","u","p",":">> \o jid \o <<"]"," ">>
  ELSE <<>>

\* C11: a text event that passes the filters is forwarded once its message
\* is reached, with content "[group:<conversationId>] " + body for a group
\* and the body alone for a direct conversation; the body is the plain text
\* if non-empty, else the extended text.
C11_TextContent ==
  \A b \in Tasks : \A i \in DOMAIN batches[b].msgs :
    LET m == batches[b].msgs[i]
        f == batches[b].fx[i].fwd
    IN (PassesFilters(m) /\ Truthy(ClaimTextBody(m)) /\ Reached(b, i))
         => /\ Len(f) = 1
            /\ f[1].content = ClaimGroupTag(m.jid[1]) \o ClaimTextBody(m)[1]

\* a group event with an empty plain text and an extended text was forwarded
C11_Witness ==
  \E b \in Tasks :
    /\ batches[b].msgs[1].jid = Some(GroupJid)
    /\ batches[b].msgs[1].conversation = Some(<<>>)
    /\ batches[b].msgs[1].extText = Some(TextYo)
    /\ Len(batches[b].fx[1].fwd) = 1
    /\ batches[b].fx[1].fwd[1].content =
         <<"[","g","r","o","u","p",":","9","@","g",".","u","s","]"," ","y","o">>

\* C12: when handleAudioMessage returns a non-empty transcript T for a voice
\* event that passes the filters, the event is forwarded with content
\* "[group:<conversationId>] [voice] " + T for a group and "[voice] " + T for
\* a direct conversation.
C12_VoiceContent ==
  \A b \in Tasks : \A i \in DOMAIN batches[b].msgs :
    LET m == batches[b].msgs[i]
        x == batches[b].fx[i]
    IN (x.heard # <<>> /\ Truthy(x.heard[1]))
         => /\ Len(x.fwd) = 1
            /\ x.fwd[1].content =
                 ClaimGroupTag(m.jid[1]) \o <<"[","v","o","i","c","e","]"," ">>
                   \o x.heard[1][1]

\* a group voice event was transcribed to "ok" and forwarded
C12_Witness ==
  \E b \in Tasks :
    /\ batches[b].msgs[1].jid = Some(GroupJid)
    /\ batches[b].fx[1].heard = <<Some(<<"o","k">>)>>
    /\ Len(batches[b].fx[1].fwd) = 1
    /\ batches[b].fx[1].fwd[1].content =
         <<"[","g","r","o","u","p",":","9","@","g",".","u","s","]"," ",
           "[","v","o","i","c","e","]"," ","o","k">>

\* C13: a voice event whose download returns nothing or zero bytes causes no
\* call of the transcription backend and no forward call.
C13_EmptyDownloadCallsNothing ==
  \A b \in Tasks : \A i \in DOMAIN batches[b].msgs :
    LET x == batches[b].fx[i]
    IN (x.got # <<>> /\ x.got[1] \in {"none", "empty"})
         => /\ x.trans = 0
            /\ x.answer = <<>>
            /\ x.fwd = <<>>

\* the download of a voice event returned zero bytes and the loop went on
C13_Witness ==
  \E b \in Tasks :
    /\ batches[b].fx[1].got = <<"empty">>
    /\ batches[b].fx[1].heard = <<None>>
    /\ batches[b].pc = "done"

\* the Voice Gateway's answer is a failure or has no text but spaces
NoTranscript(a) ==
  \/ ~a.ok
  \/ a.text = None
  \/ \A k \in DOMAIN a.text[1] : a.text[1][k] = " "

\* C14: a voice event whose download throws, whose transcription request
\* fails, or whose transcript is missing, empty or only spaces is dropped:
\* no forward call, no send, and nothing thrown out of processMessage.
C14_FailedTranscriptionDropped ==
  \A b \in Tasks : \A i \in DOMAIN batches[b].msgs :
    LET x == batches[b].fx[i]
    IN ((x.got # <<>> /\ x.got[1] = "throw")
          \/ (x.answer # <<>> /\ NoTranscript(x.answer[1])))
         => /\ x.fwd = <<>>
            /\ SendsOf(b, i) = {}
            /\ ~x.err

\* the Voice Gateway answered a transcript of one space: the event was dropped
C14_Witness ==
  \E b \in Tasks :
    /\ batches[b].fx[1].answer = <<[ok |-> TRUE, text |-> Some(<<" ">>)]>>
    /\ batches[b].fx[1].fwd = <<>>
    /\ batches[b].pc = "done"

\* C15: when the orchestrator call of an event fails, forwardToOpenClaw
\* returns null, no send is issued for the event and nothing is thrown out
\* of processMessage.
C15_ForwardFailureIsolated ==
  \A b \in Tasks : \A i \in DOMAIN batches[b].msgs :
    LET x == batches[b].fx[i]
    IN \A k \in DOMAIN x.reply :
         ~x.reply[k].ok
           => /\ x.response[k] = None
              /\ SendsOf(b, i) = {}
              /\ ~x.err

\* the orchestrator call of a forwarded event failed and the loop went on
C15_Witness ==
  \E b \in Tasks :
    /\ Len(batches[b].fx[1].fwd) = 1
    /\ batches[b].fx[1].reply = <<[ok |-> FALSE, text |-> None]>>
    /\ batches[b].pc = "done"

\* C16: no event causes more than one send; an answered forward call whose
\* reply has a non-empty text causes exactly one, addressed to the event's
\* conversation id and carrying that text; a failed call or a reply without
\* text causes none.
C16_OneReplyToConversation ==
  \A b \in Tasks : \A i \in DOMAIN batches[b].msgs :
    LET m == batches[b].msgs[i]
        x == batches[b].fx[i]
    IN /\ Cardinality(SendsOf(b, i)) <= 1
       /\ x.reply = <<>> => SendsOf(b, i) = {}
       /\ \A k \in DOMAIN x.reply :
            IF x.reply[k].ok /\ x.reply[k].text # None /\ x.reply[k].text[1] # <<>>
            THEN \E n \in SendsOf(b, i) :
                   /\ sendLog[n].to = m.jid[1]
                   /\ sendLog[n].text = x.reply[k].text[1]
            ELSE SendsOf(b, i) = {}

\* the reply to a group event with a participant id went to the group
C16_Witness ==
  \E b \in Tasks :
    /\ batches[b].msgs[1].jid = Some(GroupJid)
    /\ batches[b].msgs[1].participant = Some(ParticipantJid)
    /\ Cardinality(SendsOf(b, 1)) = 1
    /\ \A n \in SendsOf(b, 1) : sendLog[n].to = GroupJid /\ sendLog[n].text = ReplyText

----------------------------------------------------------------------------
\* Properties of the batch loop.

\* C17: a send that throws while one event of a batch is processed does not
\* end the batch: the loop goes on to the next event, and every later event it
\* has gone through that passes the filters and has text was forwarded.
C17_ExceptionDoesNotAbortBatch ==
  \A b \in Tasks : \A i \in DOMAIN batches[b].msgs :
    batches[b].fx[i].err
      => /\ batches[b].idx > i
         /\ \A j \in (i + 1)..Len(batches[b].msgs) :
              (Routable(batches[b].msgs[j]) /\ (j = i + 1 \/ batches[b].pc = "done"))
                => Len(batches[b].fx[j].fwd) = 1

\* the reply to the first event of a batch threw and the second was forwarded
C17_Witness ==
  \E b \in Tasks :
    /\ Len(batches[b].msgs) >= 2
    /\ batches[b].fx[1].err
    /\ Routable(batches[b].msgs[2])
    /\ Len(batches[b].fx[2].fwd) = 1

\* C18: once the listener has a notify batch, every event of it is classified
\* and, if it passes the filters and has text, forwarded, without waiting for
\* the backend calls of the events before it.
C18_MessagesIndependent ==
  \A b \in Tasks :
    (batches[b].type = "notify" /\ batches[b].pc # "arrived")
      => \A i \in DOMAIN batches[b].msgs :
           /\ Reached(b, i)
           /\ Routable(batches[b].msgs[i]) => Len(batches[b].fx[i].fwd) = 1

\* C19: the sends to one conversation are made in the order in which their
\* events reached the listener: by batch, and by position within a batch.
C19_SendsInAcceptanceOrder ==
  \A k1, k2 \in DOMAIN sendLog :
    (k1 < k2 /\ sendLog[k1].to = sendLog[k2].to)
      => \/ sendLog[k1].b < sendLog[k2].b
         \/ (sendLog[k1].b = sendLog[k2].b /\ sendLog[k1].i <= sendLog[k2].i)

----------------------------------------------------------------------------
\* Properties of the process.

----------------------------------------------------------------------------
\* Properties of the process-wide handle.

\* C21: getSocket() returns null exactly when no connectWhatsApp() call has
\* returned yet or a logout close has been handled; so it is not null while
\* a socket is connecting or while a transiently closed one awaits its retry.
C21_NullIffNeverConnectedOrLoggedOut ==
  /\ (getSocket = 0) <=> (conn = <<>> \/ LoggedOutHandled)
  /\ (LiveConns # {} /\ ~LoggedOutHandled) => getSocket # 0
  /\ (TransientCloseHandled /\ ~LoggedOutHandled) => getSocket # 0

\* a socket closed with a transient code, its retry timer is pending, and the
\* handle still names the closed socket
C21_Witness ==
  /\ timers = 1
  /\ LiveConns = {}
  /\ getSocket # 0
  /\ conn[getSocket].st = "close"
  /\ conn[getSocket].code = Some(ConnectionClosed)

\* a connectWhatsApp() call returns with a new socket, or a socket's
\* connection.update handler runs on an open event or on a logout close event
LifecycleStep ==
  \/ Len(conn') = Len(conn) + 1
  \/ \E c \in Conns :
       /\ conn'[c].st # conn[c].st
       /\ \/ conn'[c].st = "open"
          \/ conn'[c].st = "close" /\ conn'[c].code = Some(LoggedOut)

\* a step of an HTTP handler, of the messages.upsert listener or of one of
\* its backend calls
OtherStep ==
  httpCount' # httpCount \/ resp' # resp \/ batches' # batches
    \/ lost' # lost \/ sendLog' # sendLog

\* C22: the handle getSocket() returns changes only in a lifecycle step (a
\* connect() returning, an open event, a logout close event); /health,
\* /api/send, the listener and its transcription, forward and send calls leave
\* it as it is.
C22_HandleChangedOnlyByLifecycle ==
  [][/\ getSocket' # getSocket => LifecycleStep
     /\ OtherStep => getSocket' = getSocket]_vars

\* a request or a batch has been served while the handle names a socket that
\* is not open
C22_Witness ==
  /\ httpCount + Len(batches) >= 1
  /\ getSocket # 0
  /\ conn[getSocket].st # "open"

\* C23: whenever a socket is open (its open event was handled and it has not
\* closed), getSocket() returns that socket.
C23_OpenSocketIsTheHandle ==
  \A c \in Conns : conn[c].st = "open" => getSocket = c

\* the socket made by a reconnect is open, after the first one closed
C23_Witness ==
  /\ Len(conn) >= 2
  /\ conn[1].st = "close"
  /\ \E c \in Conns : c >= 2 /\ conn[c].st = "open" /\ getSocket = c

\* C24: no two sockets made by connectWhatsApp() are connecting or open at
\* the same time.
C24_AtMostOneLiveSocket == Cardinality(LiveConns) <= 1

\* a second socket is connecting, the first one is closed
C24_Witness ==
  /\ Len(conn) >= 2
  /\ conn[1].st = "close"
  /\ LiveConns = {Len(conn)}
  /\ conn[Len(conn)].st = "connecting"

----------------------------------------------------------------------------
\* Properties of replies and of the HTTP front door.

\* C25: every reply is sent on the socket its event arrived on (the one the
\* listener was registered on), whatever getSocket() returns at that moment.
C25_ReplyOnListenerSocket ==
  \A k \in DOMAIN sendLog :
    sendLog[k].via = "reply"
      => /\ sendLog[k].sock = batches[sendLog[k].b].sock
         /\ sendLog[k].sock \in handlers

\* a reply was sent on the listener's socket after a reconnect had replaced
\* the handle, or a logout had nulled it
C25_Witness ==
  \E k \in DOMAIN sendLog :
    /\ sendLog[k].via = "reply"
    /\ sendLog[k].cur # sendLog[k].sock
    /\ sendLog[k].sock = batches[sendLog[k].b].sock

\* C26: no request is served before the first connectWhatsApp() call has
\* returned; a /health answer with connected false and a 503 answer of
\* /api/send are given only once a logout close has been handled, never on a
\* transient close alone.
C26_NotConnectedOnlyAfterLogout ==
  /\ listening => conn # <<>>
  /\ httpCount >= 1 => conn # <<>>
  /\ (resp.ep = "health" /\ ~resp.connected) => LoggedOutHandled
  /\ resp.code = 503 => LoggedOutHandled
  /\ (resp.ep = "health" /\ TransientCloseHandled /\ ~LoggedOutHandled)
       => resp.connected

\* /health has answered connected false after a logout
C26_Witness ==
  /\ resp.ep = "health"
  /\ ~resp.connected
  /\ LoggedOutHandled

----------------------------------------------------------------------------
\* Properties of the two paths of processMessage.

\* the event has a non-empty text body, in the plain or the extended field
HasTextBody(m) == Truthy(m.conversation) \/ Truthy(m.extText)

\* the content starts with or, after a group tag, holds the voice tag
HasVoiceTag(content) ==
  \E k \in 1..Len(content) :
    k + Len(VoiceTag) - 1 <= Len(content)
      /\ SubSeq(content, k, k + Len(VoiceTag) - 1) = VoiceTag

\* C27: an event with a non-empty text body and an audio payload that passes
\* the filters is forwarded once, as text without the voice tag, and causes
\* no download and no transcription call; a download is started only for an
\* event whose two text fields are empty or missing.
C27_TextBeforeVoice ==
  \A b \in Tasks : \A i \in DOMAIN batches[b].msgs :
    LET m == batches[b].msgs[i]
        x == batches[b].fx[i]
    IN /\ (Reached(b, i) /\ PassesFilters(m) /\ HasTextBody(m) /\ m.audio)
            => /\ Len(x.fwd) = 1
               /\ ~HasVoiceTag(x.fwd[1].content)
               /\ x.dl = 0 /\ x.trans = 0 /\ x.got = <<>> /\ x.answer = <<>>
       /\ (x.dl > 0 \/ x.trans > 0) => (~HasTextBody(m) /\ m.audio)

\* a group event with text and audio has been forwarded as text and answered
C27_Witness ==
  \E b \in Tasks :
    LET m == batches[b].msgs[1]
        x == batches[b].fx[1]
    IN /\ m.audio /\ m.conversation = Some(TextHi) /\ m.jid = Some(GroupJid)
       /\ batches[b].pc = "done"
       /\ Len(x.fwd) = 1 /\ x.dl = 0
       /\ x.fwd[1].content = GroupTagOpen \o GroupJid \o GroupTagClose \o TextHi

====
